---- MODULE Spec2Model ----
(***************************************************************************)
(* A model of backlog-backup: the Backlog API client (api/client.py), the  *)
(* issue, wiki, git and svn exporters (backup/*.py) and the orchestrator   *)
(* backup_project (cli.py).                                                *)
(*                                                                         *)
(* Each component is a state machine over its own variables; a             *)
(* specification runs one component and leaves the others parked.          *)
(***************************************************************************)
EXTENDS Integers, Sequences, FiniteSets, TLC

(***************************************************************************)
(* Bounds of the model.                                                    *)
(***************************************************************************)
\* the largest number of HTTP attempts followed within one _make_request call
MaxAttempts == 3

\* the largest number of attachments of one issue or wiki page
MaxAttachments == 3

\* the largest number of Git or SVN repositories of a project
MaxRepos == 2

\* the largest number of projects of one all-projects run
MaxProjects == 2

\* the largest number of issues a project has on the remote
MaxIssues == 3

\* the largest number of items the server puts in one response
MaxPage == 2

\* the largest number of runs of equal characters in a file name given to
\* _sanitize_filename
MaxRuns == 3

(***************************************************************************)
(* State.                                                                  *)
(***************************************************************************)
VARIABLES
    api_key,      \* BacklogAPIClient.api_key, set by __init__
    mrPc,         \* where the _make_request call is: idle, send, returned, raised
    mrReq,        \* the arguments the caller passed to _make_request
    mrParams,     \* the local variable params of the innermost _make_request frame
    attempts,     \* every requests.request call made so far, with its response
    sleeps,       \* every time.sleep duration so far
    mrResult,     \* what the caller of _make_request gets
    atPc,         \* where the attachment download of one issue or page is
    atOwner,      \* "issue": _download_issue_attachments, "wiki": _download_wiki_attachments
    atList,       \* the argument attachments
    atIdx,        \* the position of the for loop in attachments
    atFs,         \* the files of attachments_dir: <<name, content>> pairs
    atCalls,      \* every downloader call so far: what the transport gave, what it returned
    atWrites,     \* the positions whose content f.write wrote
    atLog,        \* the positions for which logger.error was called
    vcPc,         \* where backup_git / backup_svn is: idle, loop, done, raised
    vcKind,       \* "git": backup_git, "svn": backup_svn
    vcRemote,     \* the repositories the project has on the remote
    vcRepositories, \* the local variable repositories
    vcIdx,        \* the position of the for loop in repositories
    vcDirs,       \* for each repository name, the state of its local mirror directory
    vcSecondRun,  \* whether this is the second backup run into the same output directory
    vcOps,        \* every external command of this run, with its outcome
    vcReported,   \* the repositories this run logged as failed
    vcCreds,      \* whether git_username / svn_username and the password are given
    vcTempFiles,  \* the repositories whose credential-helper file is on disk
    cliArgs,      \* the command line, with the API key of the environment
    cliPc,        \* where main is: start, main (the project loop), exporters (in backup_project), exit
    cliProjects,  \* the project keys main backs up, in order
    cliProjIdx,   \* the position of main's for loop in the projects
    cliFlags,     \* the exporters requested: those whose backup_*_flag is True
    cliPos,       \* the position of backup_project in the exporter order
    cliInvoked,   \* every exporter call so far: project, exporter, outcome
    cliLog,       \* what main and backup_project logged
    cliExit,      \* the exit code main returned ("none" while running)
    cliNet,       \* every request main and list_projects sent through the client
    cliFsOps,     \* every directory main and backup_project created
    enPc,         \* where backup_issues is: idle, issues, loop, done, raised
    enRemoteCount, \* the number of issues the project has on the remote
    enPageSize,   \* the number of items the server returns when no count is asked
    enProjectKey, \* the argument project_key
    enRequests,   \* every request the exporter's client calls sent
    enListed,     \* whether get_issues has returned
    enIssues,     \* the local variable issues
    enIdx,        \* the position of the for loop in issues
    enSaved,      \* the JSON records written, one entry per _save_issue_json call
    enIndex,      \* issues_summary.csv: its columns and rows
    enError,      \* the call of backup_issues that raised ("none" if none did)
    snPc,         \* where the _sanitize_filename call is: idle, done
    snKind,       \* "wiki": wiki.py's _sanitize_filename, "files": files.py's
    snInput,      \* the argument filename
    snResult,     \* what _sanitize_filename returned
    wkPc,         \* where backup_wiki is: idle, pages, loop, done, raised
    wkPages,      \* what client.get_wikis returns: the pages, each with id and name
    wkListed,     \* client.get_wikis has returned
    wkIdx,        \* the position of the for loop in wiki_pages
    wkFiles,      \* the files of wiki_dir
    wkError,      \* the call of backup_wiki that raised ("none" if none did)
    fiPc,         \* where backup_files is: idle, list, loop, done, raised
    fiClient,     \* the kind of object given as client
    fiTree,       \* the remote tree of shared files: the nodes it holds
    fiCall,       \* the arguments of the _backup_directory call being entered
    fiStack,      \* the _backup_directory calls inside their for loop, innermost first
    fiListed,     \* the directory paths given to client.get_shared_files, in order
    fiAttempted,  \* the items the for loops have gone through
    fiLocal,      \* the entries of files_dir
    fiLog,        \* the messages logged by _backup_directory
    fiFailed      \* the kinds of call that have raised or found no project

transportVars == <<api_key, mrPc, mrReq, mrParams, attempts, sleeps, mrResult>>

attachVars == <<atPc, atOwner, atList, atIdx, atFs, atCalls, atWrites, atLog>>

vcsVars == <<vcPc, vcKind, vcRemote, vcRepositories, vcIdx, vcDirs, vcSecondRun, vcOps, vcReported,
             vcCreds, vcTempFiles>>

cliVars == <<cliArgs, cliPc, cliProjects, cliProjIdx, cliFlags, cliPos, cliInvoked, cliLog,
             cliExit, cliNet, cliFsOps>>

enumVars == <<enPc, enRemoteCount, enPageSize, enProjectKey, enRequests, enListed,
              enIssues, enIdx, enSaved, enIndex, enError>>

sanitizeVars == <<snPc, snKind, snInput, snResult>>

wikiVars == <<wkPc, wkPages, wkListed, wkIdx, wkFiles, wkError>>

filesVars == <<fiPc, fiClient, fiTree, fiCall, fiStack, fiListed, fiAttempted, fiLocal, fiLog,
               fiFailed>>

vars == <<transportVars, attachVars, vcsVars, cliVars, enumVars, sanitizeVars, wikiVars, filesVars>>

\* what the actions of one component leave alone
outsideTransport == <<attachVars, vcsVars, cliVars, enumVars, sanitizeVars, wikiVars, filesVars>>

outsideAttach == <<transportVars, vcsVars, cliVars, enumVars, sanitizeVars, wikiVars, filesVars>>

outsideVcs == <<transportVars, attachVars, cliVars, enumVars, sanitizeVars, wikiVars, filesVars>>

outsideCli == <<transportVars, attachVars, vcsVars, enumVars, sanitizeVars, wikiVars, filesVars>>

outsideEnum == <<transportVars, attachVars, vcsVars, cliVars, sanitizeVars, wikiVars, filesVars>>

outsideSanitize == <<transportVars, attachVars, vcsVars, cliVars, enumVars, wikiVars, filesVars>>

outsideWiki == <<transportVars, attachVars, vcsVars, cliVars, enumVars, sanitizeVars, filesVars>>

outsideFiles == <<transportVars, attachVars, vcsVars, cliVars, enumVars, sanitizeVars, wikiVars>>

(***************************************************************************)
(* Rate-limited request transport: BacklogAPIClient._make_request.         *)
(***************************************************************************)
ApiKeys == {"key-A", "key-B"}

Methods == {"GET", "POST"}

Endpoints == {"/projects", "/issues"}

\* A query is a set of <<name, value>> pairs with at most one pair per name
\* (a Python dict).  NoParams is the default argument params=None.
NoParams == [given |-> FALSE, q |-> {}]

CallerParams ==
    { NoParams,
      [given |-> TRUE, q |-> {}],
      [given |-> TRUE, q |-> {<<"count", "100">>}],
      [given |-> TRUE, q |-> {<<"apiKey", "stale">>}] }

CallerData == {"None", "body-1"}

\* dict assignment d[k] = v
SetItem(q, k, v) == {p \in q : p[1] # k} \cup {<<k, v>>}

\* the API key is added only to a query the client builds itself
WithApiKeyOnlyWhenNone(params, key) ==
    IF params.given THEN params ELSE [given |-> TRUE, q |-> {<<"apiKey", key>>}]

\* "if params is None: params = {}" then "params['apiKey'] = self.api_key"
WithApiKey(params, key) ==
    [given |-> TRUE, q |-> SetItem(IF params.given THEN params.q ELSE {}, "apiKey", key)]

JsonContentType == "application/json"

BinaryContentType == "application/octet-stream"

\* response bodies: two that parse as JSON and one that does not
JsonBodies == {"{\"errors\":1}", "[1,2]"}

Bodies == JsonBodies \cup {"<html>"}

HttpDate == "Wed, 21 Oct 2015 07:28:00 GMT"

\* values of the Retry-After header of a 429 ("absent": no such header)
RetryAfterHeaders == {"absent", "1", "2", "-1", HttpDate}

Resp(status, ctype, body, retryAfter) ==
    [status |-> status, ctype |-> ctype, body |-> body, retryAfter |-> retryAfter]

\* 2xx responses; a body announced as JSON is well-formed JSON
OkResponses ==
    {Resp(200, JsonContentType, b, "absent") : b \in JsonBodies}
    \cup {Resp(200, BinaryContentType, b, "absent") : b \in Bodies}

ThrottleResponses == {Resp(429, "text/plain", "", h) : h \in RetryAfterHeaders}

ErrorStatuses == {404, 500}

ErrorResponses ==
    {Resp(s, JsonContentType, b, "absent") : s \in ErrorStatuses, b \in Bodies}

\* requests.request raised without a response: status 0, body names the exception
TimeoutFailure == Resp(0, "", "Timeout", "absent")

ConnectionFailure == Resp(0, "", "ConnectionError", "absent")

TransportFailures == {TimeoutFailure, ConnectionFailure}

FinalResponses == OkResponses \cup ErrorResponses \cup TransportFailures

\* a computed value, or the ValueError raised instead of it
Value(v) == [ok |-> TRUE, val |-> v]

ValueError == [ok |-> FALSE, val |-> 0]

\* int(s) for the header values of the model
IntOf(s) ==
    CASE s = "1" -> Value(1)
      [] s = "2" -> Value(2)
      [] s = "-1" -> Value(-1)
      [] OTHER -> ValueError

DefaultRetryAfter == 60

\* the header is ignored and the default is always used
RetryAfterAlwaysDefault(h) == Value(DefaultRetryAfter)

\* retry_after = int(response.headers.get("Retry-After", 60))
RetryAfterSeconds(h) == IF h = "absent" THEN Value(DefaultRetryAfter) ELSE IntOf(h)

\* results of _make_request as its caller sees them
NoResult == [kind |-> "none", val |-> "", detail |-> ""]

Returned(kind, val) == [kind |-> kind, val |-> val, detail |-> ""]

\* ValueError(msg) raised by _make_request; detail is the parsed error body
\* the message carries ("" when it carries none)
Raised(msg, detail) == [kind |-> "raise", val |-> msg, detail |-> detail]

\* the result of decoding a body as JSON; NotJson stands for the ValueError
Parsed(body) == "parsed:" \o body

NotJson == "not-json"

\* response.json()
ParseJson(body) == IF body \in JsonBodies THEN Parsed(body) ELSE NotJson

\* str(e) of the RequestException for a response or a transport failure
TransportMessage(resp) ==
    IF resp.status = 0 THEN resp.body ELSE "HTTPError"

\* The exceptions the inner "except (ValueError, KeyError)" clause catches;
\* JSONDecodeError is a subclass of ValueError.
InnerExceptCatches == {"ValueError", "JSONDecodeError", "KeyError"}

\* The except RequestException handler, lines 83-91.  Inside the inner try
\* either e.response.json() raises JSONDecodeError or the statement
\* raise ValueError(f"API Error: {error_detail}") raises ValueError; what the
\* inner except clause catches is passed over and control reaches line 91.
HandleRequestException(resp) ==
    LET hasResponse == resp.status # 0
        error_detail == ParseJson(resp.body)
        raisedInTry ==
            IF ~hasResponse THEN "none"
            ELSE IF error_detail = NotJson THEN "JSONDecodeError"
            ELSE "ValueError"
    IN  IF raisedInTry = "none" \/ raisedInTry \in InnerExceptCatches
        THEN Raised("API request failed: " \o TransportMessage(resp), "")
        ELSE Raised("API Error", error_detail)

\* What _make_request does with a response that is not a 429:
\* raise_for_status, then decode by Content-Type.
ResponseOutcome(resp) ==
    IF resp.status = 0 \/ resp.status >= 400
    THEN HandleRequestException(resp)
    ELSE IF resp.ctype = JsonContentType
         THEN Returned("json", ParseJson(resp.body))
         ELSE Returned("bytes", resp.body)

TransportInit ==
    /\ api_key \in ApiKeys
    /\ mrPc = "idle"
    /\ mrReq = [method |-> "GET", endpoint |-> "/projects", params |-> NoParams, data |-> "None"]
    /\ mrParams = NoParams
    /\ attempts = <<>>
    /\ sleeps = <<>>
    /\ mrResult = NoResult

\* _make_request is entered: lines 50-57
CallMakeRequest ==
    /\ mrPc = "idle"
    /\ \E m \in Methods, e \in Endpoints, p \in CallerParams, d \in CallerData :
          /\ mrReq' = [method |-> m, endpoint |-> e, params |-> p, data |-> d]
          /\ mrParams' = WithApiKey(p, api_key)
    /\ mrPc' = "send"
    /\ UNCHANGED <<api_key, attempts, sleeps, mrResult>>
    /\ UNCHANGED outsideTransport

Attempt(resp) ==
    [method |-> mrReq.method, endpoint |-> mrReq.endpoint, query |-> mrParams.q,
     data |-> mrReq.data, resp |-> resp]

\* requests.request answers 429: sleep, then the recursive call re-enters
\* _make_request with the same arguments (lines 70-74, then 50-57 again)
AttemptThrottled ==
    /\ mrPc = "send"
    /\ Len(attempts) < MaxAttempts
    /\ \E resp \in ThrottleResponses :
          LET retry_after == RetryAfterSeconds(resp.retryAfter) IN
          /\ attempts' = Append(attempts, Attempt(resp))
          /\ IF ~retry_after.ok
             THEN \* int() raised ValueError, which is no RequestException
                  /\ mrPc' = "raised"
                  /\ mrResult' = Raised("invalid literal for int()", "")
                  /\ UNCHANGED <<sleeps, mrParams>>
             ELSE IF retry_after.val < 0
             THEN \* time.sleep raised ValueError
                  /\ mrPc' = "raised"
                  /\ mrResult' = Raised("sleep length must be non-negative", "")
                  /\ UNCHANGED <<sleeps, mrParams>>
             ELSE /\ sleeps' = Append(sleeps, retry_after.val)
                  /\ mrParams' = WithApiKey(mrParams, api_key)
                  /\ mrPc' = "send"
                  /\ UNCHANGED mrResult
    /\ UNCHANGED <<api_key, mrReq>>
    /\ UNCHANGED outsideTransport

\* a failed request is sent again
AfterOutcomeRetriesFailures(outcome) == IF outcome.kind = "raise" THEN "send" ELSE "returned"

\* Where _make_request is after a response other than 429 or after an
\* exception of requests.request: it returns the payload (lines 78-81) or
\* raises ValueError (lines 83-91); nothing is sent again.
AfterOutcome(outcome) == IF outcome.kind = "raise" THEN "raised" ELSE "returned"

\* requests.request answers anything else, or raises: lines 76-91
AttemptFinal ==
    /\ mrPc = "send"
    /\ Len(attempts) < MaxAttempts
    /\ \E resp \in FinalResponses :
          /\ attempts' = Append(attempts, Attempt(resp))
          /\ mrResult' = ResponseOutcome(resp)
          /\ mrPc' = AfterOutcome(ResponseOutcome(resp))
    /\ UNCHANGED <<api_key, mrReq, mrParams, sleeps>>
    /\ UNCHANGED outsideTransport

\* the transport at rest, for the specifications of the other components
TransportParked ==
    /\ api_key = "key-A"
    /\ mrPc = "idle"
    /\ mrReq = [method |-> "GET", endpoint |-> "/projects", params |-> NoParams, data |-> "None"]
    /\ mrParams = NoParams
    /\ attempts = <<>>
    /\ sleeps = <<>>
    /\ mrResult = NoResult

TransportNext == CallMakeRequest \/ AttemptThrottled \/ AttemptFinal

(***************************************************************************)
(* Attachment downloaders (client.py) and the attachment loops of the      *)
(* issue and wiki exporters.                                               *)
(***************************************************************************)
\* display names as the remote gives them: the third is not a name every
\* file system takes, the fourth is a relative path
AttachmentNames == {"a.txt", "b.txt", "c:d.txt", "../../../../d.txt"}

\* the bytes the remote holds for the attachment with this id
RemoteContent(id) == "bytes-of-" \o ToString(id)

\* display names carry no path separator here; ids are 1, 2, ... by position,
\* or 0 for an attachment record without a usable id
AttachmentLists ==
    UNION { { l \in [1..n -> [id : 0..n, name : AttachmentNames]] :
                \A i \in 1..n : l[i].id \in {0, i} } : n \in 0..MaxAttachments }

\* what the server may answer to the download of one attachment (after any
\* 429 retries): its bytes, a JSON document with status 200, an error
\* status, or no answer
DownloadResponses(id) ==
    { Resp(200, BinaryContentType, RemoteContent(id), "absent"),
      Resp(200, JsonContentType, "{\"errors\":1}", "absent"),
      Resp(404, JsonContentType, "{\"errors\":1}", "absent"),
      TimeoutFailure }

\* download_attachment, given what _make_request gave
download_attachment(response_content) ==
    IF response_content.kind = "raise" THEN response_content
    ELSE IF response_content.kind = "bytes" THEN response_content
    ELSE Raised("Expected binary content for attachment download", "")

\* download_wiki_attachment: return self.get(endpoint)
download_wiki_attachment(response_content) == response_content

Download(owner, response_content) ==
    IF owner = "issue" THEN download_attachment(response_content)
    ELSE download_wiki_attachment(response_content)

\* only the client's own errors are caught
LoopCatchesValueError(exc) == exc = "ValueError"

\* the loops' handler "except Exception as e": every exception the body
\* raises is caught
LoopCatches(exc) == exc \in {"ValueError", "TypeError", "OSError"}

\* filename = attachment.get('name', ...); file_path = attachments_dir / filename
LocalFileName(attachment) == attachment.name

\* The body of the try in the for loop, for one attachment and one transport
\* result: the exception it ends with ("none" if it completes) and the files.
\* open(file_path, 'wb') creates or truncates the file before f.write runs;
\* f.write of anything but bytes raises TypeError.
AttachmentBody(owner, attachment, response_content, fs) ==
    LET content == Download(owner, response_content) IN
    IF attachment.id = 0
    THEN [exc |-> "none", fs |-> fs, wrote |-> FALSE, called |-> FALSE]
    ELSE IF content.kind = "raise"
    THEN [exc |-> "ValueError", fs |-> fs, wrote |-> FALSE, called |-> TRUE]
    ELSE IF content.kind = "bytes"
    THEN [exc |-> "none", fs |-> SetItem(fs, LocalFileName(attachment), content.val),
          wrote |-> TRUE, called |-> TRUE]
    ELSE [exc |-> "TypeError", fs |-> SetItem(fs, LocalFileName(attachment), ""),
          wrote |-> FALSE, called |-> TRUE]

AttachInit ==
    /\ atPc = "idle"
    /\ atOwner \in {"issue", "wiki"}
    /\ atList \in AttachmentLists
    /\ atIdx = 1
    /\ atFs \in {{}, {<<"a.txt", "old">>}}
    /\ atCalls = <<>>
    /\ atWrites = <<>>
    /\ atLog = <<>>

\* "if not attachments: return", then attachments_dir.mkdir, which may fail
StartAttachments ==
    /\ atPc = "idle"
    /\ \/ atList = <<>> /\ atPc' = "done"
       \/ atList # <<>> /\ atPc' \in {"loop", "raised"}
    /\ UNCHANGED <<atOwner, atList, atIdx, atFs, atCalls, atWrites, atLog>>
    /\ UNCHANGED outsideAttach

\* one iteration of "for attachment in attachments"
ProcessAttachment ==
    /\ atPc = "loop"
    /\ atIdx <= Len(atList)
    /\ \E resp \in DownloadResponses(atList[atIdx].id) :
          LET response_content == ResponseOutcome(resp)
              body == AttachmentBody(atOwner, atList[atIdx], response_content, atFs)
          IN  /\ atFs' = body.fs
              /\ atCalls' = IF body.called
                            THEN Append(atCalls, [idx |-> atIdx, got |-> response_content,
                                                  ret |-> Download(atOwner, response_content)])
                            ELSE atCalls
              /\ atWrites' = IF body.wrote THEN Append(atWrites, atIdx) ELSE atWrites
              /\ IF body.exc = "none"
                 THEN /\ atLog' = atLog
                      /\ atIdx' = atIdx + 1
                      /\ atPc' = IF atIdx = Len(atList) THEN "done" ELSE "loop"
                 ELSE IF LoopCatches(body.exc)
                 THEN /\ atLog' = Append(atLog, atIdx)
                      /\ atIdx' = atIdx + 1
                      /\ atPc' = IF atIdx = Len(atList) THEN "done" ELSE "loop"
                 ELSE /\ atLog' = atLog
                      /\ atIdx' = atIdx
                      /\ atPc' = "raised"
    /\ UNCHANGED <<atOwner, atList>>
    /\ UNCHANGED outsideAttach

AttachParked ==
    /\ atPc = "idle"
    /\ atOwner = "issue"
    /\ atList = <<>>
    /\ atIdx = 1
    /\ atFs = {}
    /\ atCalls = <<>>
    /\ atWrites = <<>>
    /\ atLog = <<>>

AttachNext == StartAttachments \/ ProcessAttachment

(***************************************************************************)
(* Git and SVN mirroring: backup_git with _clone_repository, backup_svn    *)
(* with _backup_svn_repository.                                            *)
(***************************************************************************)
RepoName(i) == "repo-" \o ToString(i)

RepoNames == {RepoName(i) : i \in 1..MaxRepos}

\* the repository lists of a project: names are unique within a project
RepoLists ==
    UNION { { l \in [1..n -> RepoNames] : \A i, j \in 1..n : i # j => l[i] # l[j] }
            : n \in 0..MaxRepos }

\* cmd = ["git", "clone", "--mirror", ...] / ["svn", "checkout", ...]: the
\* command does not depend on the state of repo_dir
Command(kind, dir) == IF kind = "git" THEN "git clone --mirror" ELSE "svn checkout"

\* How subprocess.run may end.  "exit0"/"nonzero": the return code;
\* "timeout": TimeoutExpired; "oserror": the tool could not be started.
\* git clone refuses a destination that exists and is not empty.
SubprocessOutcomes(kind, dir) ==
    IF kind = "git" /\ dir # "absent"
    THEN {"nonzero", "timeout", "oserror"}
    ELSE {"exit0", "nonzero", "timeout", "oserror"}

\* The directory after the command: "mirror" once it succeeded; a command
\* that is killed or fails part-way may leave a partial directory behind
\* (git clone removes what it created when it fails by itself).
DirsAfter(kind, dir, outcome) ==
    IF outcome = "exit0" THEN {"mirror"}
    ELSE IF dir # "absent" \/ outcome = "oserror" THEN {dir}
    ELSE IF kind = "git" /\ outcome = "nonzero" THEN {"absent"}
    ELSE {"absent", "partial"}

\* How the set-up of the credential helper of _clone_repository (git.py
\* 136-156) may end: "none", nothing to set up (no credentials, or svn, which
\* passes --username / --password); NamedTemporaryFile raises; the file is
\* created and writing it raises; the file is written and os.chmod raises;
\* or the helper is ready.
CredentialSetups(kind, creds) ==
    IF kind = "git" /\ creds
    THEN {"create-raises", "write-raises", "chmod-raises", "ready"}
    ELSE {"none"}

\* Whether the helper file is on disk when _clone_repository returns.  The
\* finally clause that unlinks it belongs to the try around subprocess.run
\* (lines 159-183) and so runs only once the helper is ready.
HelperFileLeft(setup) == setup \in {"write-raises", "chmod-raises"}

\* a timeout is not handled in the helper
HelperLetsTimeoutEscape(outcome) ==
    IF outcome = "exit0" THEN "True" ELSE IF outcome = "timeout" THEN "raise" ELSE "False"

\* What _clone_repository / _backup_svn_repository returns: True on return
\* code 0; False on any other return code, on TimeoutExpired and on any
\* other exception.
HelperReturns(outcome) == IF outcome = "exit0" THEN "True" ELSE "False"

VcsInit ==
    /\ vcPc = "idle"
    /\ vcKind \in {"git", "svn"}
    /\ vcRemote \in RepoLists
    /\ vcRepositories = <<>>
    /\ vcIdx = 1
    /\ vcDirs = [r \in RepoNames |-> "absent"]
    /\ vcSecondRun = FALSE
    /\ vcOps = <<>>
    /\ vcReported = <<>>
    /\ vcCreds \in BOOLEAN
    /\ vcTempFiles = {}

\* backup_git / backup_svn up to the for loop: get_project raises (the
\* exporter logs and re-raises), or gives nothing (return), or the
\* repository listing raises (treated as an empty list), or is empty (return)
StartVcsBackup ==
    /\ vcPc = "idle"
    /\ \E fetched \in {"project-raises", "no-project", "listing-raises", "listed"} :
          /\ vcRepositories' = IF fetched = "listed" THEN vcRemote ELSE <<>>
          /\ vcPc' = IF fetched = "project-raises" THEN "raised"
                     ELSE IF fetched = "listed" /\ vcRemote # <<>> THEN "loop"
                     ELSE "done"
    /\ UNCHANGED <<vcKind, vcRemote, vcIdx, vcDirs, vcSecondRun, vcOps, vcReported, vcCreds,
                   vcTempFiles>>
    /\ UNCHANGED outsideVcs

\* One iteration of "for repo in repositories": the helper sets up the
\* credentials and runs the command, the loop logs its result; an exception
\* in the helper is caught there and logged.  An exception of the set-up is
\* recorded like one of starting the tool: no command ran.
ProcessRepository ==
    /\ vcPc = "loop"
    /\ vcIdx <= Len(vcRepositories)
    /\ LET repo == vcRepositories[vcIdx]
           dir == vcDirs[repo]
       IN  \E setup \in CredentialSetups(vcKind, vcCreds) :
           \E outcome \in IF setup \in {"none", "ready"}
                           THEN SubprocessOutcomes(vcKind, dir) ELSE {"oserror"} :
           \E after \in DirsAfter(vcKind, dir, outcome) :
           \E info \in IF vcKind = "svn" /\ outcome = "exit0"
                        THEN {"saved", "not-saved"} ELSE {"none"} :
              /\ vcOps' = Append(vcOps, [repo |-> repo, cmd |-> Command(vcKind, dir),
                                          before |-> dir, outcome |-> outcome,
                                          success |-> HelperReturns(outcome),
                                          info |-> info, setup |-> setup])
              /\ vcTempFiles' = IF HelperFileLeft(setup)
                                THEN vcTempFiles \cup {repo} ELSE vcTempFiles
              /\ vcDirs' = [vcDirs EXCEPT ![repo] = after]
              /\ vcReported' = IF HelperReturns(outcome) = "True"
                               THEN vcReported ELSE Append(vcReported, repo)
    /\ vcIdx' = vcIdx + 1
    /\ vcPc' = IF vcIdx = Len(vcRepositories) THEN "done" ELSE "loop"
    /\ UNCHANGED <<vcKind, vcRemote, vcRepositories, vcSecondRun, vcCreds>>
    /\ UNCHANGED outsideVcs

\* the exporter is run again later, into the same output directory
SecondVcsRun ==
    /\ vcPc \in {"done", "raised"}
    /\ ~vcSecondRun
    /\ vcSecondRun' = TRUE
    /\ vcPc' = "idle"
    /\ vcRepositories' = <<>>
    /\ vcIdx' = 1
    /\ vcOps' = <<>>
    /\ vcReported' = <<>>
    /\ UNCHANGED <<vcKind, vcRemote, vcDirs, vcCreds, vcTempFiles>>
    /\ UNCHANGED outsideVcs

VcsParked ==
    /\ vcPc = "idle"
    /\ vcKind = "git"
    /\ vcRemote = <<>>
    /\ vcRepositories = <<>>
    /\ vcIdx = 1
    /\ vcDirs = [r \in RepoNames |-> "absent"]
    /\ vcSecondRun = FALSE
    /\ vcOps = <<>>
    /\ vcReported = <<>>
    /\ vcCreds = FALSE
    /\ vcTempFiles = {}

VcsNext == StartVcsBackup \/ ProcessRepository \/ SecondVcsRun

(***************************************************************************)
(* The orchestrator: main's project loop and backup_project (cli.py).      *)
(***************************************************************************)
\* the order of the calls in backup_project
ExporterOrder == <<"issues", "wiki", "files", "git", "svn">>

Exporters == {ExporterOrder[i] : i \in 1..Len(ExporterOrder)}

ProjectKey(i) == "PRJ" \o ToString(i)

\* the number of positional parameters of backup_<e>: (client, project_key,
\* output_dir), and for git and svn also (username, password)
PositionalParams(e) == IF e \in {"git", "svn"} THEN 5 ELSE 3

\* the positional arguments backup_project passes to every exporter
CliArgs ==
    << [name |-> "domain", type |-> "str"],
       [name |-> "api_key", type |-> "str"],
       [name |-> "project_key", type |-> "str"],
       [name |-> "project_output_dir", type |-> "Path"] >>

\* How a call backup_<e>(*CliArgs) can end.  More arguments than
\* positional parameters is a TypeError at the call.  Otherwise the third
\* argument is bound to output_dir, and the exporter's first statement,
\* output_dir / "<e>", raises TypeError for a str; the exporter logs it and
\* re-raises.  Only a call that binds a Path to output_dir runs the exporter,
\* which completes or raises.
ExporterOutcomes(e) ==
    IF Len(CliArgs) > PositionalParams(e) THEN {"raise"}
    ELSE IF CliArgs[3].type # "Path" THEN {"raise"}
    ELSE {"ok", "raise"}

\* what the call backup_<e>(*CliArgs) binds to the first three parameters
\* of the exporter, client, project_key and output_dir; the call itself is
\* a TypeError when there are more arguments than positional parameters
Binding(e) ==
    [ok |-> Len(CliArgs) <= PositionalParams(e),
     client |-> CliArgs[1], project_key |-> CliArgs[2], output_dir |-> CliArgs[3]]

\* the positions at or after pos whose exporter is requested
RequestedFrom(pos, flags) == {i \in pos..Len(ExporterOrder) : ExporterOrder[i] \in flags}

SetMin(S) == CHOOSE x \in S : \A y \in S : x <= y

\* Where backup_project goes on after the exporter at position pos raised:
\* the five calls share one try, so the handler at line 196 ends the
\* function (position past the last exporter).
AfterRaise(pos) == Len(ExporterOrder) + 1

\* the mutually exclusive group --project / --all-projects / --list-projects,
\* or none of them
Modes == {"none", "project", "all-projects", "list-projects"}

\* the choices of --archived-projects
ArchivedFilters == {"all", "archived-only", "non-archived-only"}

\* args.api_key or os.environ.get("BACKLOG_API_KEY"): a key, or nothing
CliApiKeys == {"none", "key-A"}

\* what parse_args and the environment can give main
CliArguments ==
    [api_key : CliApiKeys, mode : Modes, all : BOOLEAN, sel : SUBSET Exporters,
     include_all_space_projects : BOOLEAN, archived_projects : ArchivedFilters]

\* backup_<e>_flag = backup_all or args.<e>
BackupFlags(all, sel) == {e \in Exporters : all \/ e \in sel}

\* "Convert filter choice to API parameter": the Python value of archived
ArchivedOf(archived_filter) ==
    IF archived_filter = "archived-only" THEN "True"
    ELSE IF archived_filter = "non-archived-only" THEN "False"
    ELSE "None"

\* str(archived).lower() for a bool
StrLower(archived) == IF archived = "True" THEN "true" ELSE "false"

\* get_projects with "if archived:" in place of "if archived is not None:"
GetProjectsParamsByTruth(all_projects, archived) ==
    LET params == IF all_projects THEN SetItem({}, "all", "true") ELSE {}
    IN  IF archived = "True" THEN SetItem(params, "archived", StrLower(archived)) ELSE params

\* the dict params of get_projects(all_projects, archived)
GetProjectsParams(all_projects, archived) ==
    LET params == IF all_projects THEN SetItem({}, "all", "true") ELSE {}
    IN  IF archived # "None" THEN SetItem(params, "archived", StrLower(archived)) ELSE params

\* the request of client.get_projects as _make_request sends it
GetProjectsRequest(key, all_projects, archived) ==
    [method |-> "GET", endpoint |-> "/projects",
     query |-> WithApiKey([given |-> TRUE, q |-> GetProjectsParams(all_projects, archived)], key).q]

\* main's exit code depends on the failures backup_project logged
ExitCodeByLoggedFailures(log) ==
    IF \E k \in 1..Len(log) : log[k].msg = "failed" THEN "1" ELSE "0"

\* "return 0" after the backup_project calls (lines 274 and 289), whatever
\* backup_project logged
ExitCodeAfterBackup(log) == "0"

LogEntry(project, msg) == [project |-> project, msg |-> msg]

CliInit ==
    /\ cliArgs \in CliArguments
    /\ cliPc = "start"
    /\ cliProjects = <<>>
    /\ cliProjIdx = 1
    /\ cliFlags = {}
    /\ cliPos = 1
    /\ cliInvoked = <<>>
    /\ cliLog = <<>>
    /\ cliExit = "none"
    /\ cliNet = <<>>
    /\ cliFsOps = <<>>

\* main ends before the project loop with this exit code and log message
MainEnds(code, msg) ==
    /\ cliPc' = "exit"
    /\ cliExit' = code
    /\ cliLog' = IF msg = "" THEN cliLog ELSE Append(cliLog, LogEntry("", msg))
    /\ UNCHANGED <<cliProjects, cliFlags>>

\* main goes into the project loop with these projects
MainLoops(projects) ==
    /\ cliPc' = "main"
    /\ cliProjects' = projects
    /\ cliFlags' = BackupFlags(cliArgs.all, cliArgs.sel)
    /\ UNCHANGED <<cliLog, cliExit>>

\* main, lines 208-259 and 276-293: the API key check, the project listing,
\* output_dir.mkdir, the flags, and the choice of the projects to back up.
\* list_projects ends the process with sys.exit(1) when the request fails;
\* an OSError of output_dir.mkdir is outside main's try and ends the process
\* with a traceback and exit code 1.
MainSetup ==
    /\ cliPc = "start"
    /\ LET request == GetProjectsRequest(cliArgs.api_key, cliArgs.include_all_space_projects,
                                         ArchivedOf(cliArgs.archived_projects))
       IN
       IF cliArgs.api_key = "none"
       THEN /\ MainEnds("1", "API key must be provided")
            /\ UNCHANGED <<cliNet, cliFsOps>>
       ELSE IF cliArgs.mode = "list-projects"
       THEN /\ cliNet' = Append(cliNet, request)
            /\ cliFsOps' = cliFsOps
            /\ \/ MainEnds("0", "")
               \/ MainEnds("1", "Failed to list projects")
       ELSE \/ /\ MainEnds("1", "Traceback")
               /\ UNCHANGED <<cliNet, cliFsOps>>
            \/ /\ cliFsOps' = Append(cliFsOps, "output_dir")
               /\ IF cliArgs.mode = "all-projects"
                  THEN /\ cliNet' = Append(cliNet, request)
                       /\ \/ MainEnds("1", "Backup failed")
                          \/ \E n \in 0..MaxProjects :
                                MainLoops([i \in 1..n |-> ProjectKey(i)])
                  ELSE IF cliArgs.mode = "project"
                  THEN /\ cliNet' = cliNet
                       /\ MainLoops(<<ProjectKey(1)>>)
                  ELSE /\ cliNet' = cliNet
                       /\ MainEnds("1", "Either --project, --all-projects, or --list-projects must be specified")
    /\ UNCHANGED <<cliArgs, cliProjIdx, cliPos, cliInvoked>>
    /\ UNCHANGED outsideCli

\* main calls backup_project for the next project: project_output_dir.mkdir,
\* which is outside backup_project's try; an OSError reaches main's handler,
\* which logs "Backup failed" and returns 1
EnterBackupProject ==
    /\ cliPc = "main"
    /\ cliProjIdx <= Len(cliProjects)
    /\ LET project == cliProjects[cliProjIdx]
           started == Append(cliLog, LogEntry(project, "Starting backup"))
       IN  \/ /\ cliPc' = "exporters"
              /\ cliPos' = 1
              /\ cliFsOps' = Append(cliFsOps, "output_dir/" \o project)
              /\ cliLog' = started
              /\ UNCHANGED cliExit
           \/ /\ cliPc' = "exit"
              /\ cliExit' = "1"
              /\ cliLog' = Append(started, LogEntry(project, "Backup failed"))
              /\ UNCHANGED <<cliPos, cliFsOps>>
    /\ UNCHANGED <<cliArgs, cliProjects, cliProjIdx, cliFlags, cliInvoked, cliNet>>
    /\ UNCHANGED outsideCli

\* backup_project calls the next requested exporter; if it raises, the
\* handler logs the failure of the project
InvokeExporter ==
    /\ cliPc = "exporters"
    /\ RequestedFrom(cliPos, cliFlags) # {}
    /\ LET pos == SetMin(RequestedFrom(cliPos, cliFlags))
           e == ExporterOrder[pos]
           project == cliProjects[cliProjIdx]
       IN  \E outcome \in ExporterOutcomes(e) :
              /\ cliInvoked' = Append(cliInvoked,
                                      [project |-> project, exporter |-> e, outcome |-> outcome,
                                       bound |-> Binding(e)])
              /\ IF outcome = "ok"
                 THEN cliPos' = pos + 1 /\ cliLog' = cliLog
                 ELSE /\ cliPos' = AfterRaise(pos)
                      /\ cliLog' = Append(cliLog, LogEntry(project, "failed"))
    /\ UNCHANGED <<cliArgs, cliPc, cliProjects, cliProjIdx, cliFlags, cliExit, cliNet, cliFsOps>>
    /\ UNCHANGED outsideCli

\* backup_project returns to main's loop; it logs "completed successfully"
\* unless the handler ran
LeaveBackupProject ==
    /\ cliPc = "exporters"
    /\ RequestedFrom(cliPos, cliFlags) = {}
    /\ LET project == cliProjects[cliProjIdx]
           failed == \E k \in 1..Len(cliLog) : cliLog[k] = LogEntry(project, "failed")
       IN  cliLog' = IF failed THEN cliLog
                     ELSE Append(cliLog, LogEntry(project, "completed"))
    /\ cliProjIdx' = cliProjIdx + 1
    /\ cliPc' = "main"
    /\ UNCHANGED <<cliArgs, cliProjects, cliFlags, cliPos, cliInvoked, cliExit, cliNet, cliFsOps>>
    /\ UNCHANGED outsideCli

\* the project loop is over: return 0
MainReturns ==
    /\ cliPc = "main"
    /\ cliProjIdx > Len(cliProjects)
    /\ cliPc' = "exit"
    /\ cliExit' = ExitCodeAfterBackup(cliLog)
    /\ UNCHANGED <<cliArgs, cliProjects, cliProjIdx, cliFlags, cliPos, cliInvoked, cliLog,
                   cliNet, cliFsOps>>
    /\ UNCHANGED outsideCli

CliParked ==
    /\ cliArgs = [api_key |-> "none", mode |-> "none", all |-> FALSE, sel |-> {},
                  include_all_space_projects |-> FALSE, archived_projects |-> "all"]
    /\ cliPc = "start"
    /\ cliProjects = <<>>
    /\ cliProjIdx = 1
    /\ cliFlags = {}
    /\ cliPos = 1
    /\ cliInvoked = <<>>
    /\ cliLog = <<>>
    /\ cliExit = "none"
    /\ cliNet = <<>>
    /\ cliFsOps = <<>>

CliNext ==
    MainSetup \/ EnterBackupProject \/ InvokeExporter \/ LeaveBackupProject \/ MainReturns

(***************************************************************************)
(* Enumeration of a project's issues: backup_issues with get_issues.       *)
(***************************************************************************)
\* the issues of the project on the remote, by id
RemoteIssues(n) == [i \in 1..n |-> i]

\* a project key, and a numeric project id given in its place
ProjectKeys == {"PROJ", "123"}

\* str.isdigit() for the project keys of the model
IsDigit(key) == key = "123"

\* the query of a request that asks for no page
NoPaging == [hasCount |-> FALSE, count |-> 0, hasOffset |-> FALSE, offset |-> 0]

\* a request without a projectId[] parameter
NoProjectId == "absent"

\* A GET request of the client as it is sent: _make_request puts the
\* client's API key in the query of every request.
Request(endpoint, paging) ==
    [endpoint |-> endpoint, paging |-> paging, projectId |-> NoProjectId, apiKey |-> api_key]

\* the id the remote gives in the project information of a project key
RemoteProjectId(key) == "1001"

\* The value get_issues puts in params["projectId[]"], as it is written in
\* the query string: the argument itself if it is all digits (int(...)),
\* and else the "id" of the project information _get_project_id fetched.
ProjectIdParam(key) == IF IsDigit(key) THEN key ELSE RemoteProjectId(key)

\* GET /issues with params["projectId[]"] = project_id
IssuesRequest(project_id, paging) ==
    [endpoint |-> "/issues", paging |-> paging, projectId |-> project_id, apiKey |-> api_key]

Min(a, b) == IF a <= b THEN a ELSE b

\* The server's answer to GET /issues for a project with n issues: the
\* items from offset (default 0), at most count of them (default: the
\* server's own page size).
ServerPage(n, pageSize, paging) ==
    LET offset == IF paging.hasOffset THEN paging.offset ELSE 0
        count == IF paging.hasCount THEN Min(paging.count, pageSize) ELSE pageSize
    IN  SubSeq(RemoteIssues(n), offset + 1, Min(n, offset + count))

\* The requests of get_issues(project_key): the project lookup of
\* _get_project_id unless the key is all digits, then one GET /issues whose
\* query holds projectId[] and apiKey.
GetIssuesRequests(key) ==
    (IF IsDigit(key) THEN <<>> ELSE <<Request("/projects/" \o key, NoPaging)>>)
    \o <<IssuesRequest(ProjectIdParam(key), NoPaging)>>

\* issue.get('issueKey', ...) of the issue with this id
IssueKey(id) == "PROJ-" \o ToString(id)

\* The record _save_issue_json writes for an issue: the file
\* issues_dir / "<issue_key>.json" holding what client.get_issue returned.
\* backup_issues never calls client.get_issue_comments.
IssueRecord(id) == [issue |-> id, file |-> IssueKey(id) \o ".json", parts |-> {"detail"}]

\* fieldnames of _save_issues_csv
IndexColumns ==
    <<"issueKey", "summary", "description", "status", "priority", "assignee", "created",
      "updated", "dueDate", "estimatedHours", "actualHours", "issueType", "category",
      "milestone">>

\* The values of the fields of an issue of the listing: a plain value, an
\* {id, name} reference, or a list of such references.
Plain(v) == [kind |-> "plain", val |-> v, names |-> <<>>]

Ref(name) == [kind |-> "ref", val |-> "", names |-> <<name>>]

Refs(names) == [kind |-> "refs", val |-> "", names |-> names]

RemoteField(id, field) ==
    IF field = "issueKey" THEN Plain(IssueKey(id))
    ELSE IF field \in {"status", "priority", "assignee", "issueType"} THEN Ref(field \o "-name")
    ELSE IF field = "category" THEN Refs(<<"cat-1", "cat-2">>)
    ELSE IF field = "milestone" THEN Refs(<<>>)
    ELSE Plain(field \o "-of-" \o ToString(id))

RECURSIVE JoinNames(_)
\* ', '.join(names)
JoinNames(names) ==
    IF names = <<>> THEN ""
    ELSE IF Len(names) = 1 THEN names[1]
    ELSE names[1] \o ", " \o JoinNames(Tail(names))

\* the cell _save_issues_csv writes for a value (lines 101-107); an empty
\* list is written as it is
RenderField(value) ==
    IF value.kind = "ref" THEN value.names[1]
    ELSE IF value.kind = "refs" /\ value.names # <<>> THEN JoinNames(value.names)
    ELSE IF value.kind = "refs" THEN "[]"
    ELSE value.val

IndexRow(id) == [c \in 1..Len(IndexColumns) |-> RenderField(RemoteField(id, IndexColumns[c]))]

NoIndex == [written |-> FALSE, columns |-> <<>>, rows |-> <<>>]

\* _save_issues_csv(issues, csv_file)
IssuesCsv(issues) ==
    [written |-> TRUE, columns |-> IndexColumns,
     rows |-> [i \in 1..Len(issues) |-> IndexRow(issues[i])]]

EnumInit ==
    /\ enPc = "idle"
    /\ enRemoteCount \in 0..MaxIssues
    /\ enPageSize \in 1..MaxPage
    /\ enProjectKey \in ProjectKeys
    /\ enRequests = <<>>
    /\ enListed = FALSE
    /\ enIssues = <<>>
    /\ enIdx = 1
    /\ enSaved = <<>>
    /\ enIndex = NoIndex
    /\ enError = "none"

\* backup_issues, lines 33-43: client.get_project, which raises (logged and
\* re-raised), gives nothing (return) or gives the project
BackupIssuesGetProject ==
    /\ enPc = "idle"
    /\ enRequests' = Append(enRequests, Request("/projects/" \o enProjectKey, NoPaging))
    /\ enPc' \in {"issues", "done", "raised"}
    /\ enError' = IF enPc' = "raised" THEN "get_project" ELSE "none"
    /\ UNCHANGED <<enRemoteCount, enPageSize, enProjectKey, enListed, enIssues, enIdx, enSaved,
                   enIndex>>
    /\ UNCHANGED outsideEnum

\* backup_issues, lines 46-57: client.get_issues; any of its requests may
\* raise; an empty list ends the exporter; else the summary is written,
\* which may raise
BackupIssuesGetIssues ==
    /\ enPc = "issues"
    /\ LET reqs == GetIssuesRequests(enProjectKey) IN
       \/ \E k \in 1..Len(reqs) :
             /\ enRequests' = enRequests \o SubSeq(reqs, 1, k)
             /\ enPc' = "raised"
             /\ enError' = "get_issues"
             /\ UNCHANGED <<enListed, enIssues, enIndex>>
       \/ /\ enRequests' = enRequests \o reqs
          /\ enListed' = TRUE
          /\ enIssues' = ServerPage(enRemoteCount, enPageSize, reqs[Len(reqs)].paging)
          /\ \/ /\ enPc' = IF enIssues' = <<>> THEN "done" ELSE "loop"
                /\ enIndex' = IF enIssues' = <<>> THEN enIndex ELSE IssuesCsv(enIssues')
                /\ enError' = "none"
             \/ /\ enIssues' # <<>>
                /\ enPc' = "raised"
                /\ enIndex' = enIndex
                /\ enError' = "_save_issues_csv"
    /\ UNCHANGED <<enRemoteCount, enPageSize, enProjectKey, enIdx, enSaved>>
    /\ UNCHANGED outsideEnum

\* the calls of one iteration of "for issue in issues" that can raise:
\* client.get_issue (line 64), _save_issue_json (line 68) and
\* _download_issue_attachments (line 74), whose mkdir is outside its own try
IssueSteps == <<"get_issue", "_save_issue_json", "_download_issue_attachments">>

\* One iteration of "for issue in issues", lines 60-74: client.get_issue
\* gives nothing (the issue is passed over) or gives the detail, which is
\* written, and then the attachments are downloaded; or one of these calls
\* raises.  No handler encloses the loop body, so the exception leaves the
\* loop for the handler of line 78, which logs and re-raises.
ProcessIssue ==
    /\ enPc = "loop"
    /\ enIdx <= Len(enIssues)
    /\ enRequests' = Append(enRequests, Request("/issues/" \o ToString(enIssues[enIdx]), NoPaging))
    /\ \/ \E k \in 1..Len(IssueSteps) :
             /\ enSaved' = IF k > 2 THEN Append(enSaved, IssueRecord(enIssues[enIdx]))
                           ELSE enSaved
             /\ enIdx' = enIdx
             /\ enPc' = "raised"
             /\ enError' = IssueSteps[k]
       \/ /\ enSaved' \in {enSaved, Append(enSaved, IssueRecord(enIssues[enIdx]))}
          /\ enIdx' = enIdx + 1
          /\ enPc' = IF enIdx = Len(enIssues) THEN "done" ELSE "loop"
          /\ enError' = enError
    /\ UNCHANGED <<enRemoteCount, enPageSize, enProjectKey, enListed, enIssues, enIndex>>
    /\ UNCHANGED outsideEnum

EnumParked ==
    /\ enPc = "idle"
    /\ enRemoteCount = 0
    /\ enPageSize = 1
    /\ enProjectKey = "PROJ"
    /\ enRequests = <<>>
    /\ enListed = FALSE
    /\ enIssues = <<>>
    /\ enIdx = 1
    /\ enSaved = <<>>
    /\ enIndex = NoIndex
    /\ enError = "none"

EnumNext == BackupIssuesGetProject \/ BackupIssuesGetIssues \/ ProcessIssue

(***************************************************************************)
(* File-name sanitization: _sanitize_filename (wiki.py and files.py).      *)
(*                                                                         *)
(* A string is a sequence of runs: [ch |-> c, n |-> k] stands for c        *)
(* repeated k times (k >= 1), so that names longer than the length cap are *)
(* within reach of the model.                                              *)
(***************************************************************************)
\* the characters of the class [<>:"/\\|?*] of the regular expression
IllegalChars == {"<", ">", ":", "\"", "/", "\\", "|", "?", "*"}

\* the characters str.strip(' .') removes
StripChars == {" ", "."}

\* the length above which the name is cut
NameCap == 200

Run(c, k) == [ch |-> c, n |-> k]

\* the string of the given characters, one run each
Chars(cs) == [i \in 1..Len(cs) |-> Run(cs[i], 1)]

\* the characters file names are made of: a harmless one, the two stripped
\* ones and two of the illegal ones
NameAlphabet == {"a", ".", " ", "/", "*"}

\* the lengths of a run: short ones, and one that alone nearly fills the cap
RunLengths == {1, 2, NameCap - 1}

RECURSIVE SeqsUpTo(_, _)
\* the sequences over S of length at most k
SeqsUpTo(S, k) ==
    IF k = 0 THEN {<<>>}
    ELSE LET shorter == SeqsUpTo(S, k - 1)
         IN  shorter \cup {Append(q, x) : q \in {r \in shorter : Len(r) = k - 1}, x \in S}

FileNames == SeqsUpTo({Run(c, k) : c \in NameAlphabet, k \in RunLengths}, MaxRuns)

RECURSIVE StrLen(_)
\* len(s)
StrLen(s) == IF s = <<>> THEN 0 ELSE Head(s).n + StrLen(Tail(s))

\* re.sub(r'[<>:"/\\|?*]', '_', s)
Substitute(s) ==
    [i \in 1..Len(s) |-> Run(IF s[i].ch \in IllegalChars THEN "_" ELSE s[i].ch, s[i].n)]

RECURSIVE LStrip(_)
LStrip(s) ==
    IF s = <<>> THEN <<>>
    ELSE IF Head(s).ch \in StripChars THEN LStrip(Tail(s)) ELSE s

RECURSIVE RStrip(_)
RStrip(s) ==
    IF s = <<>> THEN <<>>
    ELSE IF s[Len(s)].ch \in StripChars THEN RStrip(SubSeq(s, 1, Len(s) - 1)) ELSE s

\* s.strip(' .')
Strip(s) == RStrip(LStrip(s))

RECURSIVE Slice(_, _)
\* s[:k]
Slice(s, k) ==
    IF s = <<>> \/ k <= 0 THEN <<>>
    ELSE IF Head(s).n <= k THEN <<Head(s)>> \o Slice(Tail(s), k - Head(s).n)
    ELSE <<Run(Head(s).ch, k)>>

\* the name returned for a name of which nothing is left
Fallback(kind) ==
    IF kind = "wiki"
    THEN Chars(<<"u", "n", "n", "a", "m", "e", "d", "_", "p", "a", "g", "e">>)
    ELSE Chars(<<"u", "n", "n", "a", "m", "e", "d", "_", "f", "i", "l", "e">>)

\* _sanitize_filename without the "or 'unnamed_...'" of its return
SanitizeWithoutFallback(kind, filename) ==
    LET stripped == Strip(Substitute(filename))
    IN  IF StrLen(stripped) > NameCap THEN Slice(stripped, NameCap) ELSE stripped

\* _sanitize_filename(filename): substitute, strip, cut, fall back
_sanitize_filename(kind, filename) ==
    LET stripped == Strip(Substitute(filename))
        safe_name == IF StrLen(stripped) > NameCap THEN Slice(stripped, NameCap) ELSE stripped
    IN  IF safe_name = <<>> THEN Fallback(kind) ELSE safe_name

SanitizeInit ==
    /\ snPc = "idle"
    /\ snKind \in {"wiki", "files"}
    /\ snInput \in FileNames
    /\ snResult = <<>>

\* one call of _sanitize_filename
SanitizeFilename ==
    /\ snPc = "idle"
    /\ snResult' = _sanitize_filename(snKind, snInput)
    /\ snPc' = "done"
    /\ UNCHANGED <<snKind, snInput>>
    /\ UNCHANGED outsideSanitize

SanitizeParked ==
    /\ snPc = "idle"
    /\ snKind = "wiki"
    /\ snInput = <<>>
    /\ snResult = <<>>

SanitizeNext == SanitizeFilename

(***************************************************************************)
(* The wiki exporter: backup_wiki (wiki.py).                               *)
(***************************************************************************)
\* the most pages a project has
MaxPages == 2

\* the page names the project may hold
PageNames == {<<"a">>, <<"a", "/", "b">>, <<"a", "_", "b">>}

\* the lists client.get_wikis may return: pages with ids 1, 2, ...
WikiListings ==
    UNION {{[i \in 1..n |-> [id |-> i, name |-> names[i]]] : names \in [1..n -> PageNames]} :
           n \in 0..MaxPages}

\* what client.get_wiki(page_id) returns: the page with its content field
DetailedPage(page) == [id |-> page.id, name |-> page.name, content |-> "content-" \o ToString(page.id)]

\* f"{safe_page_name}.json" and f"{safe_page_name}.md"
JsonFileName(safe_page_name) == safe_page_name \o Chars(<<".", "j", "s", "o", "n">>)

MdFileName(safe_page_name) == safe_page_name \o Chars(<<".", "m", "d">>)

\* open(path, 'w') and a write: the file is created or replaced
WriteFile(files, path, kind, page, content) ==
    {f \in files : f.path # path} \cup {[path |-> path, kind |-> kind, page |-> page, content |-> content]}

\* _save_wiki_json(detailed_page, json_file): json.dump of the page
_save_wiki_json(files, page, json_file) == WriteFile(files, json_file, "record", page.id, page.content)

\* _save_wiki_markdown(detailed_page, md_file): page.get('content', '')
_save_wiki_markdown(files, page, md_file) == WriteFile(files, md_file, "text", page.id, page.content)

\* the calls made for one page, in order; each may raise
PageSteps == <<"get_wiki", "_save_wiki_json", "_save_wiki_markdown", "_download_wiki_attachments">>

WikiInit ==
    /\ wkPc = "idle"
    /\ wkPages \in WikiListings
    /\ wkListed = FALSE
    /\ wkIdx = 1
    /\ wkFiles = {}
    /\ wkError = "none"

\* backup_wiki, lines 33-42: wiki_dir.mkdir and client.get_project; either
\* may raise; a falsy project ends the exporter
BackupWikiGetProject ==
    /\ wkPc = "idle"
    /\ \/ wkPc' = "pages" /\ wkError' = "none"
       \/ wkPc' = "done" /\ wkError' = "none"
       \/ \E call \in {"mkdir", "get_project"} : wkPc' = "raised" /\ wkError' = call
    /\ UNCHANGED <<wkPages, wkListed, wkIdx, wkFiles>>
    /\ UNCHANGED outsideWiki

\* backup_wiki, lines 45-51: client.get_wikis; it may raise; an empty list
\* ends the exporter. Nothing is written for the list itself.
BackupWikiGetWikis ==
    /\ wkPc = "pages"
    /\ \/ /\ wkListed' = TRUE
          /\ wkPc' = IF wkPages = <<>> THEN "done" ELSE "loop"
          /\ wkError' = "none"
       \/ /\ wkListed' = FALSE
          /\ wkPc' = "raised"
          /\ wkError' = "get_wikis"
    /\ UNCHANGED <<wkPages, wkIdx, wkFiles>>
    /\ UNCHANGED outsideWiki

\* one iteration of 'for page in wiki_pages' (lines 54-77); a call that
\* raises leaves the loop for the handler of lines 81-83, which re-raises;
\* a falsy detail writes nothing
ProcessPage ==
    /\ wkPc = "loop"
    /\ wkIdx <= Len(wkPages)
    /\ LET page == wkPages[wkIdx]
           safe_page_name == _sanitize_filename("wiki", Chars(page.name))
           detailed_page == DetailedPage(page)
           withJson == _save_wiki_json(wkFiles, detailed_page, JsonFileName(safe_page_name))
           withMd == _save_wiki_markdown(withJson, detailed_page, MdFileName(safe_page_name))
       IN  \/ \E k \in 1..Len(PageSteps) :
                /\ wkFiles' = IF k > 3 THEN withMd ELSE IF k > 2 THEN withJson ELSE wkFiles
                /\ wkIdx' = wkIdx
                /\ wkPc' = "raised"
                /\ wkError' = PageSteps[k]
           \/ /\ wkFiles' \in {wkFiles, withMd}
              /\ wkIdx' = wkIdx + 1
              /\ wkPc' = IF wkIdx = Len(wkPages) THEN "done" ELSE "loop"
              /\ wkError' = "none"
    /\ UNCHANGED <<wkPages, wkListed>>
    /\ UNCHANGED outsideWiki

WikiParked ==
    /\ wkPc = "idle"
    /\ wkPages = <<>>
    /\ wkListed = FALSE
    /\ wkIdx = 1
    /\ wkFiles = {}
    /\ wkError = "none"

WikiNext == BackupWikiGetProject \/ BackupWikiGetWikis \/ ProcessPage

(***************************************************************************)
(* The files exporter: backup_files and _backup_directory (files.py).      *)
(*                                                                         *)
(* A remote path is a sequence of characters; a local directory is the     *)
(* sequence of sanitized names under files_dir.                            *)
(***************************************************************************)
\* The objects given as client: the BacklogAPIClient cli.py builds, and an
\* object that also has get_shared_files and download_shared_file.
Clients == {"BacklogAPIClient", "SharedFilesClient"}

\* BacklogAPIClient defines neither get_shared_files nor
\* download_shared_file: evaluating client.get_shared_files raises
\* AttributeError
HasSharedFiles(client) == client # "BacklogAPIClient"

\* The nodes a remote tree may hold, in the order the service lists them;
\* the id of a node is its position.
Nodes ==
    << [parent |-> <<>>, name |-> <<"f">>, type |-> "file"],
       [parent |-> <<>>, name |-> <<"d">>, type |-> "directory"],
       [parent |-> << <<"d">> >>, name |-> <<"g", ":", "h">>, type |-> "file"],
       [parent |-> << <<"d">> >>, name |-> <<"e">>, type |-> "directory"],
       [parent |-> << <<"d">>, <<"e">> >>, name |-> <<"f">>, type |-> "file"],
       [parent |-> <<>>, name |-> <<"g", ":", "h">>, type |-> "file"] >>

NodeIds == 1..Len(Nodes)

\* the directory a node is
DirOf(n) == Append(Nodes[n].parent, Nodes[n].name)

\* the trees: every node of a tree but the root has its parent in the tree
Trees ==
    {t \in SUBSET NodeIds :
        \A n \in t : Nodes[n].parent # <<>> =>
            \E m \in t : Nodes[m].type = "directory" /\ DirOf(m) = Nodes[n].parent}

RECURSIVE PathOf(_)
\* the path of a directory on the service: "/" for the root, "/d/e"
PathOf(dir) ==
    IF dir = <<>> THEN <<"/">>
    ELSE IF Len(dir) = 1 THEN <<"/">> \o dir[1]
    ELSE PathOf(SubSeq(dir, 1, Len(dir) - 1)) \o <<"/">> \o dir[Len(dir)]

\* what get_shared_files(project_key, directory_path) returns: the nodes
\* of the tree whose parent has this path
RemoteListing(tree, directory_path) ==
    LET Listed(n) == n \in tree /\ PathOf(Nodes[n].parent) = directory_path
    IN  SelectSeq([n \in NodeIds |-> n], Listed)

RECURSIVE RStripSlash(_)
\* directory_path.rstrip('/')
RStripSlash(path) ==
    IF path # <<>> /\ path[Len(path)] = "/" THEN RStripSlash(SubSeq(path, 1, Len(path) - 1))
    ELSE path

\* new_path of lines 111-113
NewPath(directory_path, item_name) ==
    IF directory_path = <<"/">> THEN <<"/">> \o item_name
    ELSE RStripSlash(directory_path) \o <<"/">> \o item_name

\* safe_name of line 85
SafeName(item_name) == _sanitize_filename("files", Chars(item_name))

\* f"{safe_name}.metadata.json"
MetadataName(safe_name) ==
    safe_name \o Chars(<<".", "m", "e", "t", "a", "d", "a", "t", "a", ".", "j", "s", "o", "n">>)

\* an entry of files_dir: a directory, the content of a file or its metadata
LocalEntry(dir, name, kind, node) == [dir |-> dir, name |-> name, kind |-> kind, node |-> node]

\* mkdir(exist_ok=True) and open(..., 'w'): the entry is created or replaced
PutEntry(local, entry) ==
    {x \in local : ~(x.dir = entry.dir /\ x.name = entry.name)} \cup {entry}

LogLine(level, what, subject) == [level |-> level, what |-> what, subject |-> subject]

Frame(path, dir, items) == [path |-> path, dir |-> dir, items |-> items, idx |-> 1]

NoCall == [path |-> <<>>, dir |-> <<>>]

\* where control is once a _backup_directory call has returned
AfterReturn(stack) == IF stack = <<>> THEN "done" ELSE "loop"

\* the for loop without the try of lines 89-103: an exception raised for a
\* file leaves the directory
StackAfterFileErrorUnwinds(stack) == Tail(stack)

\* The handler of lines 102-103 logs and the for loop goes on with the
\* next item of the same directory.
StackAfterFileError(stack) == <<[Head(stack) EXCEPT !.idx = @ + 1]>> \o Tail(stack)

FilesInit ==
    /\ fiPc = "idle"
    /\ fiClient \in Clients
    /\ fiTree \in Trees
    /\ fiCall = NoCall
    /\ fiStack = <<>>
    /\ fiListed = <<>>
    /\ fiAttempted = {}
    /\ fiLocal = {}
    /\ fiLog = <<>>
    /\ fiFailed = {}

\* backup_files, lines 31-45: files_dir.mkdir and client.get_project;
\* either may raise; a falsy project ends the exporter; else
\* _backup_directory is called for "/" and files_dir
BackupFilesStart ==
    /\ fiPc = "idle"
    /\ \/ fiPc' = "list" /\ fiCall' = [path |-> <<"/">>, dir |-> <<>>] /\ fiFailed' = fiFailed
       \/ fiPc' = "done" /\ fiCall' = NoCall /\ fiFailed' = {"get_project"}
       \/ fiPc' = "raised" /\ fiCall' = NoCall /\ fiFailed' = {"setup"}
    /\ UNCHANGED <<fiClient, fiTree, fiStack, fiListed, fiAttempted, fiLocal, fiLog>>
    /\ UNCHANGED outsideFiles

\* _backup_directory, lines 69-77: client.get_shared_files. A client
\* without the method, or a call that raises, ends the call in the handler
\* of lines 117-118; an empty list ends it at line 75.
ListDirectory ==
    /\ fiPc = "list"
    /\ \/ /\ ~HasSharedFiles(fiClient)
          /\ fiLog' = Append(fiLog, LogLine("error", "directory", fiCall.path))
          /\ fiPc' = AfterReturn(fiStack)
          /\ UNCHANGED <<fiStack, fiListed, fiFailed>>
       \/ /\ HasSharedFiles(fiClient)
          /\ fiListed' = Append(fiListed, fiCall.path)
          /\ \/ /\ fiLog' = Append(fiLog, LogLine("error", "directory", fiCall.path))
                /\ fiFailed' = fiFailed \cup {"listing"}
                /\ fiPc' = AfterReturn(fiStack)
                /\ fiStack' = fiStack
             \/ LET items == RemoteListing(fiTree, fiCall.path)
                IN  /\ fiFailed' = fiFailed
                    /\ IF items = <<>>
                       THEN /\ fiLog' = Append(fiLog, LogLine("debug", "directory", fiCall.path))
                            /\ fiPc' = AfterReturn(fiStack)
                            /\ fiStack' = fiStack
                       ELSE /\ fiLog' = Append(fiLog, LogLine("info", "directory", fiCall.path))
                            /\ fiPc' = "loop"
                            /\ fiStack' = <<Frame(fiCall.path, fiCall.dir, items)>> \o fiStack
    /\ fiCall' = NoCall
    /\ UNCHANGED <<fiClient, fiTree, fiAttempted, fiLocal>>
    /\ UNCHANGED outsideFiles

\* one iteration of 'for item in items' (lines 79-115) in the innermost
\* call, for an item of type file
ProcessFile ==
    /\ fiPc = "loop"
    /\ LET top == Head(fiStack)
           item == top.items[top.idx]
           safe_name == SafeName(Nodes[item].name)
           withContent == PutEntry(fiLocal, LocalEntry(top.dir, safe_name, "content", item))
           withMetadata ==
               PutEntry(withContent, LocalEntry(top.dir, MetadataName(safe_name), "metadata", item))
       IN  /\ top.idx <= Len(top.items)
           /\ Nodes[item].type = "file"
           /\ fiAttempted' = fiAttempted \cup {item}
           /\ \/ /\ fiLocal' = withMetadata
                 /\ fiLog' = Append(fiLog, LogLine("debug", "file", Nodes[item].name))
                 /\ fiFailed' = fiFailed
                 /\ fiStack' = <<[top EXCEPT !.idx = @ + 1]>> \o Tail(fiStack)
              \/ /\ \/ fiLocal' = fiLocal /\ fiFailed' = fiFailed \cup {"download"}
                    \/ fiLocal' = withContent /\ fiFailed' = fiFailed \cup {"metadata"}
                 /\ fiLog' = Append(fiLog, LogLine("error", "file", Nodes[item].name))
                 /\ fiStack' = StackAfterFileError(fiStack)
           /\ fiPc' = AfterReturn(fiStack')
    /\ UNCHANGED <<fiClient, fiTree, fiCall, fiListed>>
    /\ UNCHANGED outsideFiles

\* one iteration of the for loop for an item of type directory: mkdir,
\* which is under the handler of lines 117-118 only, then the recursive call
ProcessDirectory ==
    /\ fiPc = "loop"
    /\ LET top == Head(fiStack)
           item == top.items[top.idx]
           safe_name == SafeName(Nodes[item].name)
       IN  /\ top.idx <= Len(top.items)
           /\ Nodes[item].type = "directory"
           /\ fiAttempted' = fiAttempted \cup {item}
           /\ \/ /\ fiLocal' = PutEntry(fiLocal, LocalEntry(top.dir, safe_name, "dir", item))
                 /\ fiCall' = [path |-> NewPath(top.path, Nodes[item].name),
                               dir |-> Append(top.dir, safe_name)]
                 /\ fiStack' = <<[top EXCEPT !.idx = @ + 1]>> \o Tail(fiStack)
                 /\ fiPc' = "list"
                 /\ UNCHANGED <<fiLog, fiFailed>>
              \/ /\ fiLocal' = fiLocal
                 /\ fiCall' = fiCall
                 /\ fiLog' = Append(fiLog, LogLine("error", "directory", top.path))
                 /\ fiFailed' = fiFailed \cup {"mkdir"}
                 /\ fiStack' = Tail(fiStack)
                 /\ fiPc' = AfterReturn(fiStack')
    /\ UNCHANGED <<fiClient, fiTree, fiListed>>
    /\ UNCHANGED outsideFiles

\* the for loop of the innermost call is over: the call returns
ReturnFromDirectory ==
    /\ fiPc = "loop"
    /\ Head(fiStack).idx > Len(Head(fiStack).items)
    /\ fiStack' = Tail(fiStack)
    /\ fiPc' = AfterReturn(fiStack')
    /\ UNCHANGED <<fiClient, fiTree, fiCall, fiListed, fiAttempted, fiLocal, fiLog, fiFailed>>
    /\ UNCHANGED outsideFiles

FilesParked ==
    /\ fiPc = "idle"
    /\ fiClient = "BacklogAPIClient"
    /\ fiTree = {}
    /\ fiCall = NoCall
    /\ fiStack = <<>>
    /\ fiListed = <<>>
    /\ fiAttempted = {}
    /\ fiLocal = {}
    /\ fiLog = <<>>
    /\ fiFailed = {}

FilesNext == BackupFilesStart \/ ListDirectory \/ ProcessFile \/ ProcessDirectory \/ ReturnFromDirectory

(***************************************************************************)
(* Specifications: one component runs, the others stay parked.             *)
(***************************************************************************)
InitTransport ==
    TransportInit /\ AttachParked /\ VcsParked /\ CliParked /\ EnumParked /\ SanitizeParked /\
    WikiParked /\ FilesParked

SpecTransport == InitTransport /\ [][TransportNext]_vars

InitAttach ==
    AttachInit /\ TransportParked /\ VcsParked /\ CliParked /\ EnumParked /\ SanitizeParked /\
    WikiParked /\ FilesParked

SpecAttach == InitAttach /\ [][AttachNext]_vars

InitVcs ==
    VcsInit /\ TransportParked /\ AttachParked /\ CliParked /\ EnumParked /\ SanitizeParked /\
    WikiParked /\ FilesParked

SpecVcs == InitVcs /\ [][VcsNext]_vars

InitCli ==
    CliInit /\ TransportParked /\ AttachParked /\ VcsParked /\ EnumParked /\ SanitizeParked /\
    WikiParked /\ FilesParked

SpecCli == InitCli /\ [][CliNext]_vars

InitEnum ==
    EnumInit /\ TransportParked /\ AttachParked /\ VcsParked /\ CliParked /\ SanitizeParked /\
    WikiParked /\ FilesParked

SpecEnum == InitEnum /\ [][EnumNext]_vars

InitSanitize ==
    SanitizeInit /\ TransportParked /\ AttachParked /\ VcsParked /\ CliParked /\ EnumParked /\
    WikiParked /\ FilesParked

SpecSanitize == InitSanitize /\ [][SanitizeNext]_vars

InitWiki ==
    WikiInit /\ TransportParked /\ AttachParked /\ VcsParked /\ CliParked /\ EnumParked /\
    SanitizeParked /\ FilesParked

SpecWiki == InitWiki /\ [][WikiNext]_vars

InitFiles ==
    FilesInit /\ TransportParked /\ AttachParked /\ VcsParked /\ CliParked /\ EnumParked /\
    SanitizeParked /\ WikiParked

SpecFiles == InitFiles /\ [][FilesNext]_vars

(***************************************************************************)
(* Properties of the transport.                                            *)
(***************************************************************************)
LastAttempt == attempts[Len(attempts)]

\* the payload _make_request is to return for a 200 response
PayloadOf(resp) == IF resp.ctype = JsonContentType THEN Parsed(resp.body) ELSE resp.body

ThrottledOnceThenOk ==
    /\ Len(attempts) >= 2
    /\ attempts[1].resp.status = 429
    /\ attempts[1].resp.retryAfter = "1"
    /\ attempts[2].resp.status = 200

\* C6: a 429 with Retry-After: 1 followed by a 200 gives the caller the
\* payload of the 200 and no error, after exactly one sleep of 1 second and
\* exactly two HTTP attempts with the same method, endpoint, query and body.
C6_ThrottleRetry ==
    ThrottledOnceThenOk =>
        /\ mrPc = "returned"
        /\ mrResult.kind \in {"json", "bytes"}
        /\ mrResult.val = PayloadOf(attempts[2].resp)
        /\ sleeps = <<1>>
        /\ Len(attempts) = 2
        /\ \A i \in 1..2 :
              /\ attempts[i].method = mrReq.method
              /\ attempts[i].endpoint = mrReq.endpoint
              /\ attempts[i].data = mrReq.data
              /\ attempts[i].query = attempts[1].query
              /\ \A p \in mrReq.params.q : p[1] # "apiKey" => p \in attempts[i].query

C6_Witness ==
    /\ ThrottledOnceThenOk
    /\ mrPc = "returned"
    /\ mrReq.params.q = {<<"count", "100">>}
    /\ mrReq.data = "body-1"

\* C7: a 429 is never surfaced to the caller as a failure, whatever its
\* Retry-After header: _make_request never raises on a 429 response.
C7_ThrottleNeverSurfaced ==
    (mrPc = "raised" /\ Len(attempts) > 0) => LastAttempt.resp.status # 429

\* C8: on a non-2xx response other than 429 the error carries the parsed
\* error body when the body is parseable, and the raw transport message
\* only when it is not.
C8_ErrorCarriesDetail ==
    (mrPc = "raised" /\ Len(attempts) > 0 /\ LastAttempt.resp.status \in ErrorStatuses) =>
        IF LastAttempt.resp.body \in JsonBodies
        THEN mrResult.detail = Parsed(LastAttempt.resp.body)
        ELSE mrResult.detail = "" /\ mrResult.val = "API request failed: HTTPError"

\* the responses and exceptions that are a failure other than a 429
OtherFailures == ErrorResponses \cup TransportFailures

\* C11: a request that failed for a reason other than a 429 (timeout,
\* connection error, non-2xx status) is not sent again: the failed attempt is
\* the last attempt of the call, the call has raised to its caller, and no
\* attempt was made before it except those answered 429.
C11_OtherFailuresNotRetried ==
    \A i \in 1..Len(attempts) :
        attempts[i].resp \in OtherFailures =>
            /\ i = Len(attempts)
            /\ mrPc = "raised"
            /\ mrResult.kind = "raise"
            /\ \A j \in 1..(i - 1) : attempts[j].resp.status = 429

\* a call whose only attempt timed out has raised, and so has a call whose
\* only attempt was answered 500
C11_Witness ==
    /\ mrPc = "raised"
    /\ Len(attempts) = 1
    /\ attempts[1].resp = TimeoutFailure \/ attempts[1].resp.status = 500

\* C10: every HTTP attempt, retries after a 429 and calls without caller
\* params included, carries apiKey equal to the client's API key.
C10_ApiKeyOnEveryAttempt ==
    \A i \in 1..Len(attempts) :
        {p \in attempts[i].query : p[1] = "apiKey"} = {<<"apiKey", api_key>>}

C10_Witness ==
    /\ Len(attempts) >= 2
    /\ attempts[1].resp.status = 429
    /\ mrReq.params.given
    /\ mrReq.params.q = {<<"count", "100">>}


(***************************************************************************)
(* Properties of the attachment downloaders and loops.                     *)
(***************************************************************************)
CallIdxs == {atCalls[k].idx : k \in 1..Len(atCalls)}

SeqRange(q) == {q[k] : k \in 1..Len(q)}

\* the downloads that succeeded: the transport delivered the attachment's bytes
SucceededIdxs == {atCalls[k].idx : k \in {j \in 1..Len(atCalls) : atCalls[j].got.kind = "bytes"}}

FailedIdxs == CallIdxs \ SucceededIdxs

\* no other attachment of the list is stored under the same name
OwnPath(i) == \A j \in 1..Len(atList) : (j # i /\ atList[j].id # 0) => atList[j].name # atList[i].name

C9_DownloadersRejectStructured ==
    \A k \in 1..Len(atCalls) :
        /\ atCalls[k].got.kind = "bytes" => atCalls[k].ret = atCalls[k].got
        /\ atCalls[k].got.kind = "json" =>
              /\ atCalls[k].ret.kind = "raise"
              /\ atCalls[k].ret.val = "Expected binary content for attachment download"
        /\ atCalls[k].ret.kind # "json"


\* the characters of a display name
NameChars(name) ==
    CASE name = "a.txt" -> Chars(<<"a", ".", "t", "x", "t">>)
      [] name = "b.txt" -> Chars(<<"b", ".", "t", "x", "t">>)
      [] name = "c:d.txt" -> Chars(<<"c", ":", "d", ".", "t", "x", "t">>)
      [] name = "../../../../d.txt" ->
            Chars(<<".", ".", "/", ".", ".", "/", ".", ".", "/", ".", ".", "/",
                    "d", ".", "t", "x", "t">>)

\* C14: every attachment whose bytes were written is stored in the
\* attachments folder under the sanitized form of its display name
C14_AttachmentsStoredUnderSanitizedNames ==
    \A k \in 1..Len(atWrites) :
        LET attachment == atList[atWrites[k]] IN
        \E file \in atFs :
            /\ NameChars(file[1]) = _sanitize_filename("wiki", NameChars(attachment.name))
            /\ file[2] = RemoteContent(attachment.id)

\* the components of a display name used as a relative path
NameParts(name) ==
    IF name = "../../../../d.txt" THEN <<"..", "..", "..", "..", "d.txt">> ELSE <<name>>

\* <output>/<project_key>
ProjectRoot == <<"output", "PRJ1">>

\* attachments_dir: issues_dir / "attachments" / issue_key, and
\* wiki_dir / "attachments" / page_name
AttachmentsDir(owner) ==
    ProjectRoot \o (IF owner = "issue" THEN <<"issues", "attachments", "PRJ1-1">>
                    ELSE <<"wiki", "attachments", "Home">>)

RECURSIVE Resolve(_, _)
\* the directory entry a path names: ".." leaves the directory reached so far
Resolve(done, rest) ==
    IF rest = <<>> THEN done
    ELSE IF Head(rest) = ".."
    THEN Resolve(IF done = <<>> THEN <<>> ELSE SubSeq(done, 1, Len(done) - 1), Tail(rest))
    ELSE Resolve(Append(done, Head(rest)), Tail(rest))

\* file_path = attachments_dir / filename, as open() follows it
LocalPath(owner, attachment) ==
    Resolve(<<>>, AttachmentsDir(owner) \o NameParts(LocalFileName(attachment)))

IsInside(root, path) == Len(path) > Len(root) /\ SubSeq(path, 1, Len(root)) = root

\* C27: every file the attachment loops create lies inside
\* <output>/<project_key>/, whatever the display name the remote gave, a
\* name with '/' or '..' included.
C27_WritesStayInsideProjectRoot ==
    \A k \in 1..Len(atCalls) :
        atCalls[k].ret.kind # "raise" =>
            IsInside(ProjectRoot, LocalPath(atOwner, atList[atCalls[k].idx]))

\* C29: a local attachment file exists after the loop only with the
\* complete bytes of a download that returned binary content: a download
\* that failed or returned something else leaves no new, empty or partial
\* file, and a file that was there before keeps its content.
C29_NoFileWithoutCompleteDownload ==
    \A file \in atFs :
        \/ file = <<"a.txt", "old">>
        \/ \E k \in 1..Len(atWrites) :
              LET attachment == atList[atWrites[k]]
              IN  file = <<LocalFileName(attachment), RemoteContent(attachment.id)>>

\* C30: two different attachments of the same issue or page are never
\* written to the same local file.
C30_DistinctItemsDistinctPaths ==
    \A i, j \in 1..Len(atWrites) :
        i # j => LocalPath(atOwner, atList[atWrites[i]]) # LocalPath(atOwner, atList[atWrites[j]])

(***************************************************************************)
(* Properties of Git and SVN mirroring.                                    *)
(***************************************************************************)
FullCommand(kind) == IF kind = "git" THEN "git clone --mirror" ELSE "svn checkout"

UpdateCommand(kind) == IF kind = "git" THEN "git pull --all" ELSE "svn update"

\* C4: the command run for a repository is the full mirror operation when
\* its local mirror directory is absent and the incremental update when the
\* directory is already present.
C4_CloneOrUpdateByDirectory ==
    \A k \in 1..Len(vcOps) :
        vcOps[k].cmd = IF vcOps[k].before = "absent"
                       THEN FullCommand(vcKind) ELSE UpdateCommand(vcKind)

\* C5: a mirror operation that exits non-zero, times out or raises makes
\* that repository alone reported as failed, the helper returning False;
\* the exporter does not raise because of it and still processes every
\* remaining repository of the list.
C5_RepositoryIsolation ==
    /\ vcPc = "raised" => vcOps = <<>>
    /\ \A k \in 1..Len(vcOps) :
          /\ vcOps[k].repo = vcRepositories[k]
          /\ vcOps[k].outcome # "exit0" =>
                (vcOps[k].success = "False" /\ vcOps[k].repo \in SeqRange(vcReported))
          /\ vcOps[k].outcome = "exit0" => vcOps[k].repo \notin SeqRange(vcReported)
    /\ vcPc = "loop" => (Len(vcOps) = vcIdx - 1 /\ vcIdx <= Len(vcRepositories))
    /\ vcPc = "done" => Len(vcOps) = Len(vcRepositories)

C5_Witness ==
    /\ vcPc = "done"
    /\ Len(vcOps) = 2
    /\ vcOps[1].outcome = "timeout"
    /\ vcOps[2].outcome = "exit0"
    /\ vcReported = <<vcOps[1].repo>>

\* C28: when Git credentials are given, the credential-helper file that
\* _clone_repository wrote is gone when _clone_repository returns, on every
\* exit path after the file was created.
C28_CredentialFileRemoved == (vcKind = "git" /\ vcCreds) => vcTempFiles = {}

\* The outcomes of the command that are a failure of the environment (the
\* remote, the network, the tool's installation).  git clone into a
\* destination that exists and is not empty exits non-zero by itself.
EnvironmentFailures(kind, dir) ==
    IF kind = "git" /\ dir # "absent"
    THEN {"timeout", "oserror"}
    ELSE {"nonzero", "timeout", "oserror"}

\* C22: a second run into the same output directory, against an unchanged
\* remote, leaves the local tree as the first run left it and reports no
\* failure the first run did not report: a repository the first run
\* mirrored is not reported as failed and is still mirrored, unless the
\* environment failed in the second run.
C22_SecondRunIdempotent ==
    (vcSecondRun /\ vcPc = "done") =>
        \A k \in 1..Len(vcOps) :
            (vcOps[k].before = "mirror"
                /\ vcOps[k].outcome \notin EnvironmentFailures(vcKind, vcOps[k].before)) =>
                    /\ vcOps[k].repo \notin SeqRange(vcReported)
                    /\ vcDirs[vcOps[k].repo] = "mirror"

(***************************************************************************)
(* Properties of the orchestrator.                                         *)
(***************************************************************************)
InvokedFor(project, e) ==
    \E k \in 1..Len(cliInvoked) :
        cliInvoked[k].project = project /\ cliInvoked[k].exporter = e

PositionOf(e) == CHOOSE i \in 1..Len(ExporterOrder) : ExporterOrder[i] = e

\* C1: when a requested exporter fails for a project, every requested
\* exporter that comes later in the order issues, wiki, files, git, svn is
\* still invoked for that project: once backup_project has returned, each
\* such exporter has been called.
C1_LaterExportersStillInvoked ==
    \A k \in 1..Len(cliInvoked) :
        LET call == cliInvoked[k]
            returned == \E i \in 1..(cliProjIdx - 1) : cliProjects[i] = call.project
        IN  (call.outcome = "raise" /\ returned) =>
                \A e \in cliFlags :
                    PositionOf(e) > PositionOf(call.exporter) => InvokedFor(call.project, e)

\* main called backup_project for the project
BackupStarted(project) ==
    \E k \in 1..Len(cliLog) : cliLog[k] = LogEntry(project, "Starting backup")

\* backup_project went through its try statement for the project
BackupEnded(project) ==
    \E k \in 1..Len(cliLog) :
        cliLog[k] \in {LogEntry(project, "completed"), LogEntry(project, "failed")}

\* C16: in an all-projects run, a failure that ends the backup of one
\* project, the failure to create its output directory included, does not
\* keep main from the other projects: when main has ended, backup_project
\* has been called for every project of the list.
C16_ProjectFailureIsolated ==
    (cliPc = "exit" /\ cliArgs.mode = "all-projects") =>
        \A i \in 1..Len(cliProjects) : BackupStarted(cliProjects[i])

\* the exporters backup_project called for the project, in call order
InvokedSeq(project) ==
    LET calls == SelectSeq(cliInvoked, LAMBDA c : c.project = project)
    IN  [k \in 1..Len(calls) |-> calls[k].exporter]

\* the requested exporters in the order issues, wiki, files, git, svn
RequestedSeq == SelectSeq(ExporterOrder, LAMBDA e : e \in cliFlags)

\* the call gave the exporter an API client, the project key and the
\* project's output directory
UsableBinding(bound) ==
    /\ bound.ok
    /\ bound.client.type = "BacklogAPIClient"
    /\ bound.project_key.name = "project_key"
    /\ bound.output_dir.name = "project_output_dir" /\ bound.output_dir.type = "Path"

\* C17: once backup_project has returned for a project, it has created the
\* project's output directory and called exactly the requested exporters
\* (all five under --all), in the order issues, wiki, files, git, svn, each
\* with a usable API client, the project key and the output directory, and
\* each call that was given no failure of its own ran to completion.
C17_ExportersInvokedWithClientInOrder ==
    \A i \in 1..Len(cliProjects) :
        i < cliProjIdx =>
            /\ \E k \in 1..Len(cliFsOps) : cliFsOps[k] = "output_dir/" \o cliProjects[i]
            /\ cliFlags = BackupFlags(cliArgs.all, cliArgs.sel)
            /\ InvokedSeq(cliProjects[i]) = RequestedSeq
            /\ \A k \in 1..Len(cliInvoked) :
                  cliInvoked[k].project = cliProjects[i] => UsableBinding(cliInvoked[k].bound)

\* the run has a configuration error: no API key, or no project selection
ConfigurationError == cliArgs.api_key = "none" \/ cliArgs.mode = "none"

\* C18: a run with a configuration error ends without having sent a request
\* and without having created anything on the file system, the output
\* directory included.
C18_ConfigurationErrorBeforeAnyIO ==
    ConfigurationError => cliNet = <<>> /\ cliFsOps = <<>>

\* backup_project went through the exporters of every selected project
BackupAttempted ==
    /\ cliArgs.api_key # "none"
    /\ cliArgs.mode \in {"project", "all-projects"}
    /\ cliProjects # <<>>
    /\ \A i \in 1..Len(cliProjects) : BackupEnded(cliProjects[i])

ListingQuery ==
    {<<"apiKey", cliArgs.api_key>>}
    \cup (IF cliArgs.include_all_space_projects THEN {<<"all", "true">>} ELSE {})
    \cup (IF cliArgs.archived_projects = "archived-only" THEN {<<"archived", "true">>}
          ELSE IF cliArgs.archived_projects = "non-archived-only" THEN {<<"archived", "false">>}
          ELSE {})

\* C20: under --list-projects (with an API key) main creates nothing on the
\* file system and calls no exporter, and when it has ended it has sent one
\* request only, GET /projects with the query the options map to.
C20_ListProjectsReadOnly ==
    (cliArgs.mode = "list-projects" /\ cliArgs.api_key # "none") =>
        /\ cliFsOps = <<>>
        /\ cliInvoked = <<>>
        /\ cliPc = "start" => cliNet = <<>>
        /\ cliPc # "start" =>
              /\ cliPc = "exit"
              /\ cliNet = <<[method |-> "GET", endpoint |-> "/projects", query |-> ListingQuery]>>

\* a listing of the non-archived projects of the whole space has ended
C20_Witness ==
    /\ cliPc = "exit"
    /\ cliExit = "0"
    /\ cliArgs.mode = "list-projects"
    /\ cliArgs.include_all_space_projects
    /\ cliArgs.archived_projects = "non-archived-only"
    /\ Len(cliNet) = 1
    /\ <<"archived", "false">> \in cliNet[1].query

(***************************************************************************)
(* Properties of the enumeration of issues.                                *)
(***************************************************************************)
\* C3: enumerating the issues of a project returns exactly all remote
\* items, whatever their number and the page size.
C3_EnumeratesEveryIssue == enListed => enIssues = RemoteIssues(enRemoteCount)

\* the requests get_issues has sent: those after the get_project request of
\* backup_issues (line 38) that are not requests of the issue loop
RequestsOfGetIssues ==
    SelectSeq(SubSeq(enRequests, 2, Len(enRequests)),
              LAMBDA r : r.endpoint = "/issues" \/ r.endpoint = "/projects/" \o enProjectKey)

\* C21: get_issues(project_id_or_key) sends exactly one request, GET /issues
\* with apiKey and with projectId[] equal to the argument as it was given,
\* a non-numeric project key included, and returns the list of the response.
C21_GetIssuesSendsOneRequest ==
    enListed =>
        /\ RequestsOfGetIssues =
               <<[endpoint |-> "/issues", paging |-> NoPaging, projectId |-> enProjectKey,
                  apiKey |-> api_key]>>
        /\ enIssues = ServerPage(enRemoteCount, enPageSize, NoPaging)

\* the detail of the i-th listed issue was asked for
IssueProcessed(i) ==
    \E k \in 1..Len(enRequests) :
        enRequests[k] = Request("/issues/" \o ToString(enIssues[i]), NoPaging)

\* the request was sent
Requested(endpoint) == \E k \in 1..Len(enRequests) : enRequests[k].endpoint = endpoint

\* C25: for every issue of the listing that backup_issues has gone through
\* with a detail, the detail and the comments were fetched and exactly one
\* record, named by the issue key, holds both; and the summary lists every
\* issue of the listing under the fixed columns, a reference written as its
\* name.
C25_IssueRecordsAndIndex ==
    /\ \A k \in 1..Len(enSaved) :
          LET record == enSaved[k]
              issue == ToString(record.issue)
          IN  /\ Requested("/issues/" \o issue)
              /\ Requested("/issues/" \o issue \o "/comments")
              /\ record.file = "PROJ-" \o issue \o ".json"
              /\ {"detail", "comments"} \subseteq record.parts
              /\ \A j \in 1..Len(enSaved) : enSaved[j].issue = record.issue => j = k
    /\ enPc \in {"loop", "done"} /\ enIssues # <<>> =>
          /\ enIndex.written
          /\ enIndex.columns =
                <<"issueKey", "summary", "description", "status", "priority", "assignee",
                  "created", "updated", "dueDate", "estimatedHours", "actualHours",
                  "issueType", "category", "milestone">>
          /\ Len(enIndex.rows) = Len(enIssues)
          /\ \A i \in 1..Len(enIssues) :
                /\ enIndex.rows[i][1] = "PROJ-" \o ToString(enIssues[i])
                /\ enIndex.rows[i][4] = "status-name"
                /\ enIndex.rows[i][13] = "cat-1, cat-2"

(***************************************************************************)
(* Properties of the wiki exporter.                                        *)
(***************************************************************************)
\* the file of wiki_dir with this name holds this
Holds(path, kind, page, content) ==
    \E f \in wkFiles : f.path = path /\ f.kind = kind /\ f.page = page /\ f.content = content

\* C26: once backup_wiki has gone through all the pages it listed without
\* raising, wiki_dir holds an index of the id and name of every listed page
\* and, for every listed page, a record and a text file holding the raw
\* content field, both under the sanitized page name.
C26_WikiIndexAndPageFiles ==
    (wkPc = "done" /\ wkListed /\ wkPages # <<>>) =>
        /\ \E f \in wkFiles :
              /\ f.kind = "index"
              /\ f.content = [i \in 1..Len(wkPages) |-> [id |-> wkPages[i].id, name |-> wkPages[i].name]]
        /\ \A i \in 1..Len(wkPages) :
              LET safe == _sanitize_filename("wiki", Chars(wkPages[i].name))
                  raw == "content-" \o ToString(wkPages[i].id)
              IN  /\ Holds(safe \o Chars(<<".", "j", "s", "o", "n">>), "record", wkPages[i].id, raw)
                  /\ Holds(safe \o Chars(<<".", "m", "d">>), "text", wkPages[i].id, raw)

(***************************************************************************)
(* Properties of the files exporter.                                       *)
(***************************************************************************)
\* the local directory mirroring a remote directory
LocalDir(dir) == [i \in 1..Len(dir) |-> SafeName(dir[i])]

\* the paths of the directories of the tree, depth first from "/"
DirectoryPreorder ==
    LET IsDirectory(n) == n \in fiTree /\ Nodes[n].type = "directory"
        dirs == SelectSeq([n \in NodeIds |-> n], IsDirectory)
    IN  <<PathOf(<<>>)>> \o [k \in 1..Len(dirs) |-> PathOf(DirOf(dirs[k]))]

DoubleSlash(path) == \E i \in 1..(Len(path) - 1) : path[i] = "/" /\ path[i + 1] = "/"

\* C23: once backup_files has ended for a project without any call having
\* failed, every directory of the remote tree has its local subdirectory,
\* every file has, in the local directory mirroring its parent, a content
\* file under its sanitized name and a metadata record; the directories
\* were listed depth first from "/", no path holding a double slash.
C23_TreeMirrored ==
    (fiPc = "done" /\ fiFailed = {}) =>
        /\ \A n \in fiTree :
              LET dir == LocalDir(Nodes[n].parent)
                  safe == _sanitize_filename("files", Chars(Nodes[n].name))
              IN  IF Nodes[n].type = "directory"
                  THEN LocalEntry(dir, safe, "dir", n) \in fiLocal
                  ELSE /\ LocalEntry(dir, safe, "content", n) \in fiLocal
                       /\ LocalEntry(dir, MetadataName(safe), "metadata", n) \in fiLocal
        /\ fiListed = DirectoryPreorder
        /\ fiListed[1] = <<"/">>
        /\ \A k \in 1..Len(fiListed) : ~DoubleSlash(fiListed[k])

\* the message was logged
Logged(level, what, subject) ==
    \E k \in 1..Len(fiLog) : fiLog[k] = LogLine(level, what, subject)

\* C24: when the only calls that failed are downloads of files (the content
\* or its metadata) and listings of subdirectories, every failure was logged
\* and every entry of every directory that was listed has been processed;
\* a directory without entries logs no error.
C24_FileAndListingFailuresIsolated ==
    (fiPc = "done" /\ fiFailed \subseteq {"download", "metadata", "listing"}) =>
        /\ \A n \in fiTree :
              Logged("info", "directory", PathOf(Nodes[n].parent)) => n \in fiAttempted
        /\ \A n \in fiAttempted :
              Nodes[n].type = "file" =>
                  \/ LocalEntry(LocalDir(Nodes[n].parent), MetadataName(SafeName(Nodes[n].name)),
                                "metadata", n) \in fiLocal
                  \/ Logged("error", "file", Nodes[n].name)
        /\ fiFailed \cap {"download", "metadata"} # {} =>
              \E n \in fiTree : Logged("error", "file", Nodes[n].name)
        /\ "listing" \in fiFailed =>
              \E k \in 1..Len(fiListed) : Logged("error", "directory", fiListed[k])
        /\ \A k \in 1..Len(fiListed) :
              (HasSharedFiles(fiClient) /\ RemoteListing(fiTree, fiListed[k]) = <<>>
                  /\ Logged("debug", "directory", fiListed[k])) =>
                  ~Logged("error", "directory", fiListed[k])

\* the download of the first file of the root failed, so did the listing of
\* the directory after it, and the file after both was stored
C24_Witness ==
    /\ fiPc = "done"
    /\ fiFailed = {"download", "listing"}
    /\ Logged("error", "file", Nodes[1].name)
    /\ Logged("error", "directory", PathOf(DirOf(2)))
    /\ \E x \in fiLocal : x.node = 6 /\ x.kind = "content"
    /\ ~\E x \in fiLocal : x.node = 1

\* C15: when a call made for one issue (fetching its detail, writing its
\* record, preparing its attachments folder) has failed, backup_issues still
\* ends having processed every other listed issue
C15_IssueFailureIsolated ==
    (enPc \in {"done", "raised"} /\ enListed
        /\ enError \in {IssueSteps[k] : k \in 1..Len(IssueSteps)}) =>
        \A i \in 1..Len(enIssues) : i # enIdx => IssueProcessed(i)

(***************************************************************************)
(* Properties of _sanitize_filename.                                       *)
(***************************************************************************)
FirstChar(s) == s[1].ch

LastChar(s) == s[Len(s)].ch

\* C12: whatever the name given, _sanitize_filename returns a non-empty
\* name that holds none of the characters < > : " / \ | ? *
C12_SanitizedIsSafeAndNonEmpty ==
    snPc = "done" =>
        /\ StrLen(snResult) >= 1
        /\ \A i \in 1..Len(snResult) : snResult[i].n >= 1 /\ snResult[i].ch \notin IllegalChars

\* a name of illegal characters only came back as underscores, and a name of
\* which stripping leaves nothing came back as the fallback name
C12_Witness ==
    /\ snPc = "done"
    /\ \/ snInput = <<Run("/", 1), Run("*", 2)>> /\ snResult = <<Run("_", 1), Run("_", 2)>>
       \/ snInput = <<Run(".", 1), Run(" ", 2)>> /\ snResult = Fallback(snKind)

\* C13: whatever the name given, longer than the cap included, the name
\* _sanitize_filename returns is at most NameCap characters long and neither
\* starts nor ends with a dot or a space
C13_SanitizedIsCappedAndTrimmed ==
    snPc = "done" =>
        /\ StrLen(snResult) <= NameCap
        /\ FirstChar(snResult) \notin StripChars
        /\ LastChar(snResult) \notin StripChars

====
